---- MODULE Spec2Model ----
(***************************************************************************)
(* windsurf-update: the update pipeline of main() (resolve, compare the    *)
(* installed version, download with resume, verify the digest, confirm    *)
(* and remove the installation directory, extract, record the version),   *)
(* with downloadFile, calculateSHA256, extractArchive and compareVersions. *)
(* Line numbers refer to src/unnamed/part_001, the variant with the        *)
(* --force-update and --yes flags.                                         *)
(*                                                                         *)
(* Strings are sequences of character codes: 0..9 are the digits, Dot is   *)
(* '.', Newline is '\n'.  File contents are sequences of bytes.  Paths and *)
(* tar entry names are sequences of components (the string split at '/').  *)
(***************************************************************************)
EXTENDS Integers, Sequences, FiniteSets, TLC

\* ------------------------------------------------------------------ bounds
\* Length in bytes of the archive the server holds.
ResLen == 2
\* Entries read from the tar stream in the extraction specification.
MaxEntries == 2

\* --------------------------------------------------------------- strings
Dot == 10
Newline == 11
IsDigit(c) == c \in 0..9
IsSpace(c) == c = Newline

RECURSIVE TrimLeft(_)
TrimLeft(s) ==
  IF s # <<>> /\ IsSpace(Head(s)) THEN TrimLeft(Tail(s)) ELSE s

RECURSIVE TrimRight(_)
TrimRight(s) ==
  IF s # <<>> /\ IsSpace(s[Len(s)]) THEN TrimRight(SubSeq(s, 1, Len(s) - 1)) ELSE s

\* strings.TrimSpace
TrimSpace(s) == TrimRight(TrimLeft(s))

\* strings.Split(s, "."): the parts between the dots, at least one part.
RECURSIVE SplitDots(_, _, _)
SplitDots(s, cur, acc) ==
  IF s = <<>> THEN Append(acc, cur)
  ELSE IF Head(s) = Dot THEN SplitDots(Tail(s), <<>>, Append(acc, cur))
  ELSE SplitDots(Tail(s), Append(cur, Head(s)), acc)

Split(s) == SplitDots(s, <<>>, <<>>)

RECURSIVE Decimal(_, _)
Decimal(s, n) == IF s = <<>> THEN n ELSE Decimal(Tail(s), 10 * n + Head(s))

\* strconv.Atoi with the error dropped (v, _ := Atoi(p)): 0 for an empty part
\* or one holding a character that is no digit.
Atoi(p) ==
  IF p # <<>> /\ \A i \in 1..Len(p) : IsDigit(p[i]) THEN Decimal(p, 0) ELSE 0

Max(a, b) == IF a >= b THEN a ELSE b

RECURSIVE CompareParts(_, _, _, _)
CompareParts(p1, p2, i, maxLen) ==
  IF i > maxLen THEN 0
  ELSE LET v1Val == IF i <= Len(p1) THEN Atoi(p1[i]) ELSE 0
           v2Val == IF i <= Len(p2) THEN Atoi(p2[i]) ELSE 0
       IN IF v1Val < v2Val THEN -1
          ELSE IF v1Val > v2Val THEN 1
          ELSE CompareParts(p1, p2, i + 1, maxLen)

\* compareVersions that stops at the shorter version's last component
\* (min for the max of line 409).
compareVersionsToShorter(a, b) ==
  LET v1Parts == Split(a)
      v2Parts == Split(b)
      minLen == IF Len(v1Parts) <= Len(v2Parts) THEN Len(v1Parts) ELSE Len(v2Parts)
  IN CompareParts(v1Parts, v2Parts, 1, minLen)

\* Lines 403-433.
compareVersions(a, b) ==
  LET v1Parts == Split(a)
      v2Parts == Split(b)
  IN CompareParts(v1Parts, v2Parts, 1, Max(Len(v1Parts), Len(v2Parts)))

\* ---------------------------------------------------------------- digest
\* calculateSHA256: the file's bytes folded into the hash state, chunk after
\* chunk.  The digest is modelled collision-free on the files of the model:
\* bytes are >= 1, so the base-HashBase numeral of a file is its own.
HashBase == 16

RECURSIVE HashWrite(_, _)
HashWrite(h, bytes) ==
  IF bytes = <<>> THEN h ELSE HashWrite(h * HashBase + Head(bytes), Tail(bytes))

calculateSHA256(bytes) == HashWrite(1, bytes)

\* ------------------------------------------------------------------ paths
\* filepath.Clean of a rooted path given as components: empty and "."
\* components vanish, ".." drops the component before it (the root stays).
RECURSIVE CleanAbs(_, _)
CleanAbs(comps, acc) ==
  IF comps = <<>> THEN acc
  ELSE LET c == Head(comps) IN
       IF c = "" \/ c = "." THEN CleanAbs(Tail(comps), acc)
       ELSE IF c = ".." THEN
         CleanAbs(Tail(comps), IF acc = <<>> THEN acc ELSE SubSeq(acc, 1, Len(acc) - 1))
       ELSE CleanAbs(Tail(comps), Append(acc, c))

\* filepath.Join(destPath, name) for an absolute destPath.
Join(destPath, name) == CleanAbs(destPath \o name, <<>>)

\* filepath.Clean of a relative path: a ".." that has nothing to drop stays.
RECURSIVE CleanRel(_, _)
CleanRel(comps, acc) ==
  IF comps = <<>> THEN acc
  ELSE LET c == Head(comps) IN
       IF c = "" \/ c = "." THEN CleanRel(Tail(comps), acc)
       ELSE IF c = ".." THEN
         CleanRel(Tail(comps),
                  IF acc = <<>> \/ acc[Len(acc)] = ".." THEN Append(acc, "..")
                  ELSE SubSeq(acc, 1, Len(acc) - 1))
       ELSE CleanRel(Tail(comps), Append(acc, c))

\* A name is the string split at '/': "" is <<"">>, "/x" is <<"", "x">>.
IsAbs(name) == Len(name) >= 2 /\ name[1] = ""

\* filepath.IsLocal: not absolute, not empty, and the cleaned path does not
\* start with "..".
IsLocal(name) ==
  /\ ~IsAbs(name)
  /\ name # <<"">>
  /\ LET c == CleanRel(name, <<>>) IN c = <<>> \/ c[1] # ".."

\* strings.TrimPrefix(name, "Windsurf/")
TrimPrefix(name) ==
  IF Len(name) >= 2 /\ name[1] = "Windsurf" THEN Tail(name) ELSE name

Parent(p) == SubSeq(p, 1, Len(p) - 1)
IsPrefix(p, q) == Len(p) <= Len(q) /\ SubSeq(q, 1, Len(p)) = p
Prefixes(p) == {SubSeq(p, 1, n) : n \in 0..Len(p)}
\* q lies inside the tree rooted at p (p itself included).
Inside(p, q) == IsPrefix(p, q)

\* ------------------------------------------------------------ file system
\* d is the set of directories, f the function from file paths to contents.
\* os.MkdirAll(p): fails when p or one of its ancestors is a file.
MkdirAllErr(d, f, p) == \E q \in Prefixes(p) : q \in DOMAIN f
MkdirAllDirs(d, f, p) == IF MkdirAllErr(d, f, p) THEN d ELSE d \cup Prefixes(p)

\* os.OpenFile(p, O_CREATE|O_RDWR): fails when the parent is no directory or
\* p is a directory; creates an empty file when there is none; an existing
\* file keeps its bytes (no O_TRUNC).
OpenFileErr(d, f, p) == p = <<>> \/ Parent(p) \notin d \/ p \in d

\* Writing data from offset 0 into a file holding old.
WriteAt0(old, data) ==
  IF Len(data) >= Len(old) THEN data
  ELSE data \o SubSeq(old, Len(data) + 1, Len(old))

Put(f, p, bytes) == [q \in DOMAIN f \cup {p} |-> IF q = p THEN bytes ELSE f[q]]
Drop(f, p) == [q \in DOMAIN f \ {p} |-> f[q]]


\* ------------------------------------------------------------- constants
\* The installation directory (--install-path) and the marker in it
\* (filepath.Join(*installPath, VersionMarker)).
InstallPath == <<"apps", "ws">>
VersionMarker == ".windsurf-release"
versionMarker == Append(InstallPath, VersionMarker)

platformMap ==
  [k \in {"darwin-arm64", "darwin-amd64", "linux-amd64", "windows-amd64"} |->
     CASE k = "darwin-arm64" -> [os |-> "darwin", arch |-> "arm64-dmg"]
       [] k = "darwin-amd64" -> [os |-> "darwin", arch |-> "x64-dmg"]
       [] k = "linux-amd64" -> [os |-> "linux", arch |-> "x64"]
       [] k = "windows-amd64" -> [os |-> "win32", arch |-> "x64"]]

\* The platforms a run is started for: two supported keys, one that is not.
PlatformKeys == {"linux-amd64", "darwin-amd64", "plan9-386"}
NoPlatform == [os |-> "", arch |-> ""]

\* strings.HasPrefix(*platform, "linux-")
IsLinux(token) == token.os = "linux"

\* ------------------------------------------------------------ the server
\* The archive the release names, and what a server that corrupts it sends.
Resource == [i \in 1..ResLen |-> i]
Corrupt == [i \in 1..ResLen |-> ResLen + i]

\* "1.5", the version the metadata endpoint reports.
LatestVersion == <<1, Dot, 5>>
NoRelease == [URL |-> "", WindsurfVersion |-> <<>>, SHA256Hash |-> 0]
LatestRelease ==
  [URL |-> "https://windsurf-stable/Windsurf-linux-x64.tar.gz",
   WindsurfVersion |-> LatestVersion,
   SHA256Hash |-> calculateSHA256(Resource)]

\* Markers an installation may hold at first: "1.4", "1.5\n", "1.10".
InstalledVersions == {<<1, Dot, 4>>, <<1, Dot, 5, Newline>>, <<1, Dot, 1, 0>>}

StatusOK == 200
StatusPartialContent == 206
StatusRangeNotSatisfiable == 416
StatusServerError == 500

Suffix(s, n) == SubSeq(s, n + 1, Len(s))

\* What the server may answer to a GET whose Range header is "bytes=off-"
\* (off = 0: no Range header).  A server that honours ranges answers 206 with
\* the rest of the resource and 416 at or past its end; one that does not
\* answers 200 with all of it; any server may fail with 500; the bytes may
\* be those of Corrupt.
ServerResponses(off) ==
  {[status |-> StatusOK, body |-> b, corrupt |-> b # Resource] : b \in {Resource, Corrupt}}
  \cup {[status |-> StatusServerError, body |-> <<>>, corrupt |-> FALSE]}
  \cup (IF off > 0
        THEN {[status |-> StatusRangeNotSatisfiable, body |-> <<>>, corrupt |-> FALSE]}
             \cup (IF off < ResLen
                   THEN {[status |-> StatusPartialContent, body |-> Suffix(b, off),
                          corrupt |-> b # Resource] : b \in {Resource, Corrupt}}
                   ELSE {})
        ELSE {})

\* The answer of a server that holds Resource and honours range requests.
CorrectResponse(off) ==
  IF off = 0 THEN [status |-> StatusOK, body |-> Resource, corrupt |-> FALSE]
  ELSE IF off < ResLen
    THEN [status |-> StatusPartialContent, body |-> Suffix(Resource, off), corrupt |-> FALSE]
  ELSE [status |-> StatusRangeNotSatisfiable, body |-> <<>>, corrupt |-> FALSE]

NoResponse == [status |-> 0, body |-> <<>>, corrupt |-> FALSE]

\* ----------------------------------------------------------- tar entries
TypeDir == "dir"
TypeReg == "reg"
TypeSymlink == "symlink"

Entry(n, t, b) == [name |-> n, type |-> t, data |-> b]

\* Windsurf/, Windsurf/bin/, Windsurf/bin/app: directories before their files.
FullArchive ==
  << Entry(<<"Windsurf", "">>, TypeDir, <<>>),
     Entry(<<"Windsurf", "bin", "">>, TypeDir, <<>>),
     Entry(<<"Windsurf", "bin", "app">>, TypeReg, <<7, 8>>) >>
\* An archive without directory entries.
FilesOnlyArchive ==
  << Entry(<<"Windsurf", "app">>, TypeReg, <<7>>),
     Entry(<<"Windsurf", "bin", "app">>, TypeReg, <<7, 8>>) >>
Archives == {FullArchive, FilesOnlyArchive}

NoFile == [exists |-> FALSE, data |-> <<>>]
File(bytes) == [exists |-> TRUE, data |-> bytes]

\* An installation of an earlier release: bin/app and a file the new release
\* no longer ships.
OldDirs == {InstallPath, Append(InstallPath, "bin")}
OldFiles == (<<"apps", "ws", "bin", "app">> :> <<5, 6, 5>>) @@ (<<"apps", "ws", "old">> :> <<5>>)
BaseDirs == {<<>>, <<"apps">>}
NoFiles == [p \in {} |-> <<>>]

\* -------------------------------------------------------------- variables
VARIABLES
  pc,           \* the statement of main() / downloadFile / extractArchive reached
  err,          \* why the run aborted
  force, yes,   \* --force-update, --yes
  platform,     \* *platform after the lookup in platformMap
  release,      \* the ReleaseInfo of getLatestRelease
  vsn,          \* os.ReadFile(versionMarker) of line 114
  response,     \* the answer read by fmt.Scanln
  archiveHash,  \* calculateSHA256(archivePath) of line 147, 0 before
  dirs, files,  \* the file system outside the download directory
  dlDir,        \* whether the download directory exists
  archive,      \* the file at archivePath
  partial,      \* the file at archivePath + ".partial"
  startOffset,  \* downloadFile's startOffset
  resp,         \* the response being read, its unread body
  reqs,         \* the requests of this run: Range offset, status, corrupt
  idx,          \* the tar reader's position
  payload,      \* the entries of the release's archive
  last,         \* the header tr.Next() returned last
  dirs0, files0, archive0, partial0,  \* the file system when the run started
  v1, v2,       \* the arguments of a call of compareVersions
  cmp,          \* what the call returned
  prev          \* how the run before this one ended (tracked in SpecRecover)

vars == <<pc, err, force, yes, platform, release, vsn, response, archiveHash,
          dirs, files, dlDir, archive, partial, startOffset, resp, reqs, idx,
          payload, last, dirs0, files0, archive0, partial0, v1, v2, cmp,
          prev>>

fsVars == <<dirs, files, dlDir, archive, partial>>
snapVars == <<dirs0, files0, archive0, partial0>>
flagVars == <<force, yes, platform>>
dlVars == <<startOffset, resp, reqs>>
cmpVars == <<v1, v2, cmp>>

Terminal == {"Done", "Skipped", "Manual", "Aborted", "Killed"}
NoVsn == [read |-> FALSE, err |-> FALSE, data |-> <<>>]
NoEntry == Entry(<<"">>, "", <<>>)

Exists(d, f, p) == p \in d \/ p \in DOMAIN f

Init ==
  /\ pc = "idle"
  /\ err = ""
  /\ force = FALSE /\ yes = FALSE /\ platform = NoPlatform
  /\ release = NoRelease
  /\ vsn = NoVsn
  /\ response = <<>>
  /\ archiveHash = 0
  /\ \/ dirs = BaseDirs /\ files = NoFiles
     \/ dirs = BaseDirs \cup OldDirs /\ files = OldFiles
     \/ /\ dirs = BaseDirs \cup OldDirs
        /\ \E v \in InstalledVersions : files = Put(OldFiles, versionMarker, v)
  /\ dlDir \in BOOLEAN
  /\ archive = NoFile
  /\ partial = NoFile
  /\ startOffset = 0 /\ resp = NoResponse /\ reqs = <<>>
  /\ idx = 0
  /\ payload \in Archives
  /\ last = NoEntry
  /\ dirs0 = dirs /\ files0 = files /\ archive0 = archive /\ partial0 = partial
  /\ v1 = <<>> /\ v2 = <<>> /\ cmp = 0
  /\ prev = "idle"


\* ------------------------------------------------------------- extraction
\* One pass of extractArchive's loop over the header e (lines 368-397).
ExtractEntry(d, f, destPath, e) ==
  IF ~IsLocal(e.name) THEN [dirs |-> d, files |-> f, err |-> TRUE]
  ELSE LET name == TrimPrefix(e.name)
           target == Join(destPath, name)
       IN IF name = <<"">> THEN [dirs |-> d, files |-> f, err |-> FALSE]
          ELSE IF e.type = TypeDir THEN
            [dirs |-> MkdirAllDirs(d, f, target), files |-> f,
             err |-> MkdirAllErr(d, f, target)]
          ELSE IF e.type = TypeReg THEN
            IF OpenFileErr(d, f, target) THEN [dirs |-> d, files |-> f, err |-> TRUE]
            ELSE [dirs |-> d,
                  files |-> Put(f, target,
                                WriteAt0(IF target \in DOMAIN f THEN f[target] ELSE <<>>,
                                         e.data)),
                  err |-> FALSE]
          ELSE [dirs |-> d, files |-> f, err |-> FALSE]

\* gzip.NewReader and tar.NewReader over the archive's bytes: the release's
\* archive holds the payload, other bytes are no gzip stream.
GzipErr(bytes) == bytes # Resource

\* --------------------------------------------------------------- main()
Abort(reason) == pc' = "Aborted" /\ err' = reason

\* Lines 49-102: the flags are parsed and the platform is looked up.
StartRun ==
  /\ pc \in Terminal \cup {"idle"}
  /\ force' \in BOOLEAN
  /\ yes' \in BOOLEAN
  /\ \E k \in PlatformKeys :
       IF k \in DOMAIN platformMap
       THEN platform' = platformMap[k] /\ pc' = "resolve" /\ err' = ""
       ELSE platform' = NoPlatform /\ Abort("UnsupportedPlatform")
  /\ release' = NoRelease
  /\ vsn' = NoVsn
  /\ response' = <<>>
  /\ archiveHash' = 0
  /\ startOffset' = 0 /\ resp' = NoResponse /\ reqs' = <<>>
  /\ idx' = 0
  /\ last' = NoEntry
  /\ dirs0' = dirs /\ files0' = files /\ archive0' = archive /\ partial0' = partial
  /\ UNCHANGED <<fsVars, payload, cmpVars, prev>>

\* Lines 104-110 and getLatestRelease (197-214).
Resolve ==
  /\ pc = "resolve"
  /\ \/ release' = LatestRelease /\ pc' = "checkver" /\ UNCHANGED err
     \/ Abort("ResolutionError") /\ UNCHANGED release
  /\ UNCHANGED <<flagVars, vsn, response, archiveHash, fsVars, dlVars, idx,
                 payload, last, snapVars, cmpVars, prev>>

\* CheckVersion with "> 0" for the ">= 0" of line 120.
CheckVersionStrict ==
  /\ pc = "checkver"
  /\ IF Exists(dirs, files, InstallPath) /\ ~force
     THEN \/ /\ versionMarker \in DOMAIN files
             /\ vsn' = [read |-> TRUE, err |-> FALSE, data |-> files[versionMarker]]
             /\ LET existing == TrimSpace(files[versionMarker])
                    latest == release.WindsurfVersion
                IN IF compareVersions(existing, latest) > 0
                   THEN pc' = "Skipped"
                   ELSE pc' = "checkdl"
          \/ /\ vsn' = [read |-> TRUE, err |-> TRUE, data |-> <<>>]
             /\ pc' = "checkdl"
     ELSE vsn' = vsn /\ pc' = "checkdl"
  /\ UNCHANGED <<err, flagVars, release, response, archiveHash, fsVars, dlVars,
                 idx, payload, last, snapVars, cmpVars, prev>>

\* Lines 112-125.
CheckVersion ==
  /\ pc = "checkver"
  /\ IF Exists(dirs, files, InstallPath) /\ ~force
     THEN \/ /\ versionMarker \in DOMAIN files
             /\ vsn' = [read |-> TRUE, err |-> FALSE, data |-> files[versionMarker]]
             /\ LET existing == TrimSpace(files[versionMarker])
                    latest == release.WindsurfVersion
                IN IF compareVersions(existing, latest) >= 0
                   THEN pc' = "Skipped"
                   ELSE pc' = "checkdl"
          \/ /\ vsn' = [read |-> TRUE, err |-> TRUE, data |-> <<>>]
             /\ pc' = "checkdl"
     ELSE vsn' = vsn /\ pc' = "checkdl"
  /\ UNCHANGED <<err, flagVars, release, response, archiveHash, fsVars, dlVars,
                 idx, payload, last, snapVars, cmpVars, prev>>

\* Lines 127-131.
CheckDownloadDir ==
  /\ pc = "checkdl"
  /\ IF dlDir THEN pc' = "stat_archive" /\ UNCHANGED err
     ELSE Abort("NoDownloadDir")
  /\ UNCHANGED <<flagVars, release, vsn, response, archiveHash, fsVars, dlVars,
                 idx, payload, last, snapVars, cmpVars, prev>>

\* StatArchive without the os.Stat of line 135: the download always runs.
StatArchiveAlwaysDownloads ==
  /\ pc = "stat_archive"
  /\ pc' = "dl_request"
  /\ UNCHANGED <<err, flagVars, release, vsn, response, archiveHash, fsVars,
                 dlVars, idx, payload, last, snapVars, cmpVars, prev>>

\* Lines 133-143: the download is skipped when the archive is there.
StatArchive ==
  /\ pc = "stat_archive"
  /\ pc' = IF archive.exists THEN "verify" ELSE "dl_request"
  /\ UNCHANGED <<err, flagVars, release, vsn, response, archiveHash, fsVars,
                 dlVars, idx, payload, last, snapVars, cmpVars, prev>>

\* ---------------------------------------------------------- downloadFile
Sent(off, r) == [range |-> off, status |-> r.status, corrupt |-> r.corrupt]

\* Lines 216-242: the partial file's size, the request, the first response.
DlRequest ==
  /\ pc = "dl_request"
  /\ LET off == IF partial.exists THEN Len(partial.data) ELSE 0 IN
     /\ startOffset' = off
     /\ \/ \E r \in ServerResponses(off) :
             /\ resp' = r
             /\ reqs' = Append(reqs, Sent(off, r))
             /\ pc' = "dl_resp"
             /\ UNCHANGED err
        \/ /\ Abort("TransferError")
           /\ UNCHANGED <<resp, reqs>>
  /\ UNCHANGED <<flagVars, release, vsn, response, archiveHash, fsVars, idx,
                 payload, last, snapVars, cmpVars, prev>>

RangeRefused == startOffset > 0 /\ resp.status # StatusPartialContent

\* DlFallback without the req.Header.Del("Range") of line 248.
DlFallbackKeepsRange ==
  /\ pc = "dl_resp"
  /\ RangeRefused
  /\ startOffset' = 0
  /\ partial' = NoFile
  /\ \/ \E r \in ServerResponses(startOffset) :
          /\ resp' = r
          /\ reqs' = Append(reqs, Sent(startOffset, r))
          /\ pc' = "dl_status"
          /\ UNCHANGED err
     \/ /\ Abort("TransferError")
        /\ UNCHANGED <<resp, reqs>>
  /\ UNCHANGED <<flagVars, release, vsn, response, archiveHash, dirs, files,
                 dlDir, archive, idx, payload, last, snapVars, cmpVars, prev>>

\* DlFallback without lines 247 and 252: the offset and the partial file stay.
DlFallbackKeepsPartial ==
  /\ pc = "dl_resp"
  /\ RangeRefused
  /\ \/ \E r \in ServerResponses(0) :
          /\ resp' = r
          /\ reqs' = Append(reqs, Sent(0, r))
          /\ pc' = "dl_status"
          /\ UNCHANGED err
     \/ /\ Abort("TransferError")
        /\ UNCHANGED <<resp, reqs>>
  /\ UNCHANGED <<flagVars, release, vsn, response, archiveHash, fsVars,
                 startOffset, idx, payload, last, snapVars, cmpVars, prev>>

\* Lines 244-259: the range was not honoured; the partial file is deleted
\* and the request is sent again without the Range header.
DlFallback ==
  /\ pc = "dl_resp"
  /\ RangeRefused
  /\ startOffset' = 0
  /\ partial' = NoFile
  /\ \/ \E r \in ServerResponses(0) :
          /\ resp' = r
          /\ reqs' = Append(reqs, Sent(0, r))
          /\ pc' = "dl_status"
          /\ UNCHANGED err
     \/ /\ Abort("TransferError")
        /\ UNCHANGED <<resp, reqs>>
  /\ UNCHANGED <<flagVars, release, vsn, response, archiveHash, dirs, files,
                 dlDir, archive, idx, payload, last, snapVars, cmpVars, prev>>

\* DlOpen with os.Create on both branches of line 268: a resumed download
\* truncates what it had.
DlOpenAlwaysCreates ==
  /\ pc = "dl_status" \/ (pc = "dl_resp" /\ ~RangeRefused)
  /\ IF resp.status # StatusOK /\ resp.status # StatusPartialContent
     THEN Abort("TransferError") /\ UNCHANGED partial
     ELSE pc' = "dl_copy" /\ partial' = File(<<>>) /\ UNCHANGED err
  /\ UNCHANGED <<flagVars, release, vsn, response, archiveHash, dirs, files,
                 dlDir, archive, dlVars, idx, payload, last, snapVars, cmpVars, prev>>

\* Lines 261-277: the final status, then the partial file is opened for
\* appending (resuming) or created empty.
DlOpen ==
  /\ pc = "dl_status" \/ (pc = "dl_resp" /\ ~RangeRefused)
  /\ IF resp.status # StatusOK /\ resp.status # StatusPartialContent
     THEN Abort("TransferError") /\ UNCHANGED partial
     ELSE IF startOffset > 0
       THEN IF partial.exists
            THEN pc' = "dl_copy" /\ UNCHANGED <<err, partial>>
            ELSE Abort("TransferError") /\ UNCHANGED partial
       ELSE pc' = "dl_copy" /\ partial' = File(<<>>) /\ UNCHANGED err
  /\ UNCHANGED <<flagVars, release, vsn, response, archiveHash, dirs, files,
                 dlDir, archive, dlVars, idx, payload, last, snapVars, cmpVars, prev>>

\* Line 295, io.Copy: one more byte of the body reaches the partial file.
DlCopy ==
  /\ pc = "dl_copy"
  /\ resp.body # <<>>
  /\ partial' = File(Append(partial.data, Head(resp.body)))
  /\ resp' = [resp EXCEPT !.body = Tail(resp.body)]
  /\ UNCHANGED <<pc, err, flagVars, release, vsn, response, archiveHash, dirs,
                 files, dlDir, archive, startOffset, reqs, idx, payload, last,
                 snapVars, cmpVars, prev>>

\* DlCopyFail with an os.Remove(partialPath) on the error path of line 297.
DlCopyFailRemovesPartial ==
  /\ pc = "dl_copy"
  /\ resp.body # <<>>
  /\ partial' = NoFile
  /\ Abort("TransferError")
  /\ UNCHANGED <<flagVars, release, vsn, response, archiveHash, dirs, files,
                 dlDir, archive, dlVars, idx, payload, last, snapVars, cmpVars, prev>>

\* Lines 296-298: the transfer fails while the body is streamed.
DlCopyFail ==
  /\ pc = "dl_copy"
  /\ resp.body # <<>>
  /\ Abort("TransferError")
  /\ UNCHANGED <<flagVars, release, vsn, response, archiveHash, fsVars, dlVars,
                 idx, payload, last, snapVars, cmpVars, prev>>

\* Lines 300-305: the body is read to its end, the partial file is renamed.
DlRename ==
  /\ pc = "dl_copy"
  /\ resp.body = <<>>
  /\ archive' = File(partial.data)
  /\ partial' = NoFile
  /\ pc' = "verify"
  /\ UNCHANGED <<err, flagVars, release, vsn, response, archiveHash, dirs,
                 files, dlDir, dlVars, idx, payload, last, snapVars, cmpVars, prev>>


\* Verify without the os.Exit(1) of line 154: a mismatch is only reported.
VerifyWithoutExit ==
  /\ pc = "verify"
  /\ IF ~archive.exists
     THEN Abort("IntegrityError") /\ UNCHANGED archiveHash
     ELSE /\ archiveHash' = calculateSHA256(archive.data)
          /\ pc' = "confirm" /\ UNCHANGED err
  /\ UNCHANGED <<flagVars, release, vsn, response, fsVars, dlVars, idx,
                 payload, last, snapVars, cmpVars, prev>>

\* Verify with an os.Remove(archivePath) ahead of the os.Exit(1) of line 154.
VerifyRemovesMismatch ==
  /\ pc = "verify"
  /\ IF ~archive.exists
     THEN Abort("IntegrityError") /\ UNCHANGED <<archiveHash, archive>>
     ELSE /\ archiveHash' = calculateSHA256(archive.data)
          /\ IF archiveHash' # release.SHA256Hash
             THEN Abort("IntegrityError") /\ archive' = NoFile
             ELSE pc' = "confirm" /\ UNCHANGED <<err, archive>>
  /\ UNCHANGED <<flagVars, release, vsn, response, dirs, files, dlDir, partial,
                 dlVars, idx, payload, last, snapVars, cmpVars, prev>>

\* ------------------------------------------------------- main(), continued
\* Lines 145-156: the digest of the file at archivePath against the
\* release's.
Verify ==
  /\ pc = "verify"
  /\ IF ~archive.exists
     THEN Abort("IntegrityError") /\ UNCHANGED archiveHash
     ELSE /\ archiveHash' = calculateSHA256(archive.data)
          /\ IF archiveHash' # release.SHA256Hash
             THEN Abort("IntegrityError")
             ELSE pc' = "confirm" /\ UNCHANGED err
  /\ UNCHANGED <<flagVars, release, vsn, response, fsVars, dlVars, idx,
                 payload, last, snapVars, cmpVars, prev>>

\* What the user may type at the prompt.
Answers == {<<>>, <<"y">>, <<"Y", "e", "s">>, <<"n">>, <<"n", "y">>}

\* Declined with only the first operand of line 166.
DeclinedOnlyWhenEmpty(r) == Len(r) < 1

\* Line 166: len(response) < 1 || (response[0] != 'Y' && response[0] != 'y')
Declined(r) == Len(r) < 1 \/ (r[1] # "Y" /\ r[1] # "y")

\* Confirm with the marker unlinked ahead of the prompt of line 163.
ConfirmAfterUnlink ==
  /\ pc = "confirm"
  /\ IF Exists(dirs, files, InstallPath)
     THEN /\ files' = Drop(files, versionMarker)
          /\ IF yes
             THEN pc' = "remove" /\ UNCHANGED <<err, response>>
             ELSE \E r \in Answers :
                    /\ response' = r
                    /\ IF Declined(r)
                       THEN Abort("ConfirmationDeclined")
                       ELSE pc' = "remove" /\ UNCHANGED err
     ELSE pc' = "mkdir" /\ UNCHANGED <<err, response, files>>
  /\ UNCHANGED <<flagVars, release, vsn, archiveHash, dirs, dlDir, archive,
                 partial, dlVars, idx, payload, last, snapVars, cmpVars, prev>>

\* Lines 158-170: an existing installation directory is removed after --yes
\* or an answer that starts with y or Y.
Confirm ==
  /\ pc = "confirm"
  /\ IF Exists(dirs, files, InstallPath)
     THEN IF yes
          THEN pc' = "remove" /\ UNCHANGED <<err, response>>
          ELSE \E r \in Answers :
                 /\ response' = r
                 /\ IF Declined(r)
                    THEN Abort("ConfirmationDeclined")
                    ELSE pc' = "remove" /\ UNCHANGED err
     ELSE pc' = "mkdir" /\ UNCHANGED <<err, response>>
  /\ UNCHANGED <<flagVars, release, vsn, archiveHash, fsVars, dlVars, idx,
                 payload, last, snapVars, cmpVars, prev>>

\* The paths of the tree at p that have nothing below them.
Leaves(d, f, p) ==
  {q \in d \cup DOMAIN f :
     /\ Inside(p, q)
     /\ \A r \in d \cup DOMAIN f : IsPrefix(q, r) => r = q}

\* Line 171, os.RemoveAll: one file or emptied directory is unlinked; the
\* call returns when the installation directory itself is gone.
RemoveStep ==
  /\ pc = "remove"
  /\ \E q \in Leaves(dirs, files, InstallPath) :
       /\ dirs' = dirs \ {q}
       /\ files' = IF q \in DOMAIN files THEN Drop(files, q) ELSE files
       /\ pc' = IF q = InstallPath THEN "mkdir" ELSE "remove"
  /\ UNCHANGED <<err, flagVars, release, vsn, response, archiveHash, dlDir,
                 archive, partial, dlVars, idx, payload, last, snapVars, cmpVars, prev>>

\* RemoveFail with the error of os.RemoveAll dropped (no exit at line 173).
RemoveFailIgnored ==
  /\ pc = "remove"
  /\ pc' = "mkdir"
  /\ UNCHANGED <<err, flagVars, release, vsn, response, archiveHash, fsVars,
                 dlVars, idx, payload, last, snapVars, cmpVars, prev>>

\* Lines 171-174: os.RemoveAll returns an error with part of the tree left.
RemoveFail ==
  /\ pc = "remove"
  /\ Abort("RemoveError")
  /\ UNCHANGED <<flagVars, release, vsn, response, archiveHash, fsVars, dlVars,
                 idx, payload, last, snapVars, cmpVars, prev>>

\* Lines 176-179 and 192-194: os.MkdirAll (its error is dropped), then the
\* platform decides between extraction and the manual-install message.
Mkdir ==
  /\ pc = "mkdir"
  /\ dirs' = MkdirAllDirs(dirs, files, InstallPath)
  /\ pc' = IF IsLinux(platform) THEN "extract_open" ELSE "Manual"
  /\ UNCHANGED <<err, flagVars, release, vsn, response, archiveHash, files,
                 dlDir, archive, partial, dlVars, idx, payload, last, snapVars, cmpVars, prev>>

\* Lines 342-357: the archive is opened and its gzip header read.
ExtractOpen ==
  /\ pc = "extract_open"
  /\ IF ~archive.exists \/ GzipErr(archive.data)
     THEN Abort("ExtractionError") /\ UNCHANGED idx
     ELSE pc' = "extract" /\ idx' = 1 /\ UNCHANGED err
  /\ UNCHANGED <<flagVars, release, vsn, response, archiveHash, fsVars, dlVars,
                 payload, last, snapVars, cmpVars, prev>>

\* Lines 359-398: the next header is read and materialised.
ExtractNext ==
  /\ pc = "extract"
  /\ idx <= Len(payload)
  /\ LET r == ExtractEntry(dirs, files, InstallPath, payload[idx]) IN
     /\ dirs' = r.dirs
     /\ files' = r.files
     /\ last' = payload[idx]
     /\ IF r.err
        THEN Abort("ExtractionError") /\ UNCHANGED idx
        ELSE idx' = idx + 1 /\ UNCHANGED <<pc, err>>
  /\ UNCHANGED <<flagVars, release, vsn, response, archiveHash, dlDir, archive,
                 partial, dlVars, payload, snapVars, cmpVars, prev>>

\* Lines 360-363 and 400: io.EOF ends the loop, extractArchive returns nil.
ExtractEOF ==
  /\ pc = "extract"
  /\ idx > Len(payload)
  /\ pc' = "marker"
  /\ UNCHANGED <<err, flagVars, release, vsn, response, archiveHash, fsVars,
                 dlVars, idx, payload, last, snapVars, cmpVars, prev>>

\* WriteMarker with an os.Exit(1) where line 186 prints the warning.
WriteMarkerOrExit ==
  /\ pc = "marker"
  /\ \/ /\ ~OpenFileErr(dirs, files, versionMarker)
        /\ files' = Put(files, versionMarker, release.WindsurfVersion)
        /\ pc' = "Done" /\ UNCHANGED err
     \/ Abort("MarkerError") /\ UNCHANGED files
  /\ UNCHANGED <<flagVars, release, vsn, response, archiveHash, dirs,
                 dlDir, archive, partial, dlVars, idx, payload, last, snapVars, cmpVars, prev>>

\* WriteMarker with release.ProductVersion (here "1.9") for the
\* release.WindsurfVersion of line 188.
WriteMarkerOtherField ==
  /\ pc = "marker"
  /\ \/ /\ ~OpenFileErr(dirs, files, versionMarker)
        /\ files' = Put(files, versionMarker, <<1, Dot, 9>>)
     \/ UNCHANGED files
  /\ pc' = "Done"
  /\ UNCHANGED <<err, flagVars, release, vsn, response, archiveHash, dirs,
                 dlDir, archive, partial, dlVars, idx, payload, last, snapVars, cmpVars, prev>>

\* Lines 184-191: os.Create(versionMarker) and WriteString; a failure is a
\* warning and the run ends as a success all the same.
WriteMarker ==
  /\ pc = "marker"
  /\ \/ /\ ~OpenFileErr(dirs, files, versionMarker)
        /\ files' = Put(files, versionMarker, release.WindsurfVersion)
     \/ UNCHANGED files
  /\ pc' = "Done"
  /\ UNCHANGED <<err, flagVars, release, vsn, response, archiveHash, dirs,
                 dlDir, archive, partial, dlVars, idx, payload, last, snapVars, cmpVars, prev>>

\* The process is terminated abruptly (SIGINT, power loss).
Kill ==
  /\ pc \notin Terminal \cup {"idle"}
  /\ pc' = "Killed"
  /\ UNCHANGED <<err, flagVars, release, vsn, response, archiveHash, fsVars,
                 dlVars, idx, payload, last, snapVars, cmpVars, prev>>

Next ==
  \/ StartRun
  \/ Resolve
  \/ CheckVersion
  \/ CheckDownloadDir
  \/ StatArchive
  \/ DlRequest
  \/ DlFallback
  \/ DlOpen
  \/ DlCopy
  \/ DlCopyFail
  \/ DlRename
  \/ Verify
  \/ Confirm
  \/ RemoveStep
  \/ RemoveFail
  \/ Mkdir
  \/ ExtractOpen
  \/ ExtractNext
  \/ ExtractEOF
  \/ WriteMarker
  \/ Kill

Spec == Init /\ [][Next]_vars


\* ------------------------------------------- extractArchive on any stream
\* extractArchive as a whole (lines 342-401) over the entries of an archive.
RECURSIVE ExtractAll(_, _, _, _)
ExtractAll(d, f, destPath, entries) ==
  IF entries = <<>> THEN [dirs |-> d, files |-> f, err |-> FALSE]
  ELSE LET r == ExtractEntry(d, f, destPath, Head(entries)) IN
       IF r.err THEN r ELSE ExtractAll(r.dirs, r.files, destPath, Tail(entries))

\* The headers a tar stream may hold: every name of one to three components
\* over NameParts (an empty component is a leading, doubled or trailing
\* slash), as a directory, a regular file with one or two bytes, a symlink.
NameParts == {"Windsurf", "..", "bin", ""}
EntryNames ==
  {<<a>> : a \in NameParts}
  \cup {<<a, b>> : a \in NameParts, b \in NameParts}
  \cup {<<a, b, c>> : a \in NameParts, b \in NameParts, c \in NameParts}
StreamEntries ==
  {Entry(n, TypeDir, <<>>) : n \in EntryNames}
  \cup {Entry(n, TypeReg, b) : n \in EntryNames, b \in {<<9>>, <<7, 8>>}}
  \cup {Entry(n, TypeSymlink, <<>>) : n \in EntryNames}

\* extractArchive is called on the installation directory main() has just
\* created (lines 171-180), for an archive of any entries.
InitExtract ==
  /\ pc = "extract"
  /\ err = ""
  /\ force = FALSE /\ yes = TRUE /\ platform = platformMap["linux-amd64"]
  /\ release = LatestRelease
  /\ vsn = NoVsn
  /\ response = <<>>
  /\ archiveHash = LatestRelease.SHA256Hash
  /\ dirs = BaseDirs \cup {InstallPath} /\ files = NoFiles
  /\ dlDir = TRUE
  /\ archive = File(Resource)
  /\ partial = NoFile
  /\ startOffset = 0 /\ resp = NoResponse /\ reqs = <<>>
  /\ idx = 1
  /\ payload = <<>>
  /\ last = NoEntry
  /\ dirs0 = dirs /\ files0 = files /\ archive0 = archive /\ partial0 = partial
  /\ v1 = <<>> /\ v2 = <<>> /\ cmp = 0
  /\ prev = "idle"

\* Lines 359-398 for whatever header tr.Next() returns.
StreamNext ==
  /\ pc = "extract"
  /\ idx <= MaxEntries
  /\ \E e \in StreamEntries :
       LET r == ExtractEntry(dirs, files, InstallPath, e) IN
       /\ dirs' = r.dirs
       /\ files' = r.files
       /\ last' = e
       /\ IF r.err
          THEN Abort("ExtractionError") /\ UNCHANGED idx
          ELSE idx' = idx + 1 /\ UNCHANGED <<pc, err>>
  /\ UNCHANGED <<flagVars, release, vsn, response, archiveHash, dlDir, archive,
                 partial, dlVars, payload, snapVars, cmpVars, prev>>

\* Lines 360-363 and 400: the stream ends.
StreamEOF ==
  /\ pc = "extract"
  /\ pc' = "marker"
  /\ UNCHANGED <<err, flagVars, release, vsn, response, archiveHash, fsVars,
                 dlVars, idx, payload, last, snapVars, cmpVars, prev>>

NextExtract == StreamNext \/ StreamEOF

SpecExtract == InitExtract /\ [][NextExtract]_vars


\* ------------------------------------------- compareVersions on any pair
\* The components a version string may hold between its dots: numbers of one
\* or two digits, and nothing.
Components == {<<>>, <<0>>, <<1>>, <<2>>, <<3>>, <<9>>, <<1, 0>>}
\* The version strings of one to three components.
Versions ==
  Components
  \cup {a \o <<Dot>> \o b : a \in Components, b \in Components}
  \cup {a \o <<Dot>> \o b \o <<Dot>> \o c :
          a \in Components, b \in Components, c \in Components}

InitCompare ==
  /\ pc = "compare"
  /\ err = ""
  /\ force = FALSE /\ yes = FALSE /\ platform = platformMap["linux-amd64"]
  /\ release = LatestRelease
  /\ vsn = NoVsn
  /\ response = <<>>
  /\ archiveHash = 0
  /\ dirs = BaseDirs /\ files = NoFiles
  /\ dlDir = TRUE
  /\ archive = NoFile
  /\ partial = NoFile
  /\ startOffset = 0 /\ resp = NoResponse /\ reqs = <<>>
  /\ idx = 0
  /\ payload = <<>>
  /\ last = NoEntry
  /\ dirs0 = dirs /\ files0 = files /\ archive0 = archive /\ partial0 = partial
  /\ v1 \in Versions /\ v2 \in Versions
  /\ cmp = 0
  /\ prev = "idle"

\* A call compareVersions(v1, v2) returns.
Compare ==
  /\ pc = "compare"
  /\ cmp' = compareVersions(v1, v2)
  /\ pc' = "compared"
  /\ UNCHANGED <<err, flagVars, release, vsn, response, archiveHash, fsVars,
                 dlVars, idx, payload, last, snapVars, v1, v2, prev>>

NextCompare == Compare

SpecCompare == InitCompare /\ [][NextCompare]_vars


\* ------------------------------------------- runs after an interrupted run
\* Lines 49-102 for a run on linux-amd64, the platform main() installs
\* itself; prev records how the run before it ended.
RecoverStart ==
  /\ pc \in Terminal \cup {"idle"}
  /\ prev' = pc
  /\ force' \in BOOLEAN
  /\ yes' \in BOOLEAN
  /\ platform' = platformMap["linux-amd64"] /\ pc' = "resolve" /\ err' = ""
  /\ release' = NoRelease
  /\ vsn' = NoVsn
  /\ response' = <<>>
  /\ archiveHash' = 0
  /\ startOffset' = 0 /\ resp' = NoResponse /\ reqs' = <<>>
  /\ idx' = 0
  /\ last' = NoEntry
  /\ dirs0' = dirs /\ files0' = files /\ archive0' = archive /\ partial0' = partial
  /\ UNCHANGED <<fsVars, payload, cmpVars>>

NextRecover ==
  \/ RecoverStart
  \/ Resolve
  \/ CheckVersion
  \/ CheckDownloadDir
  \/ StatArchive
  \/ DlRequest
  \/ DlFallback
  \/ DlOpen
  \/ DlCopy
  \/ DlCopyFail
  \/ DlRename
  \/ Verify
  \/ Confirm
  \/ RemoveStep
  \/ RemoveFail
  \/ Mkdir
  \/ ExtractOpen
  \/ ExtractNext
  \/ ExtractEOF
  \/ WriteMarker
  \/ Kill

SpecRecover == Init /\ [][NextRecover]_vars


\* ================================================================ claims
TreeChanged == dirs # dirs0 \/ files # files0
DownloadDirChanged == archive # archive0 \/ partial # partial0
InDownload == pc \in {"dl_request", "dl_resp", "dl_status", "dl_copy"}
\* The statements of main() from the removal of the installation on.
AfterVerification ==
  pc \in {"confirm", "remove", "mkdir", "extract_open", "extract", "marker", "Done", "Manual"}
ExpectedDigest == calculateSHA256(Resource)

\* C1: the installation directory is removed and entries are extracted only
\* after the digest computed over the file at the archive path was found
\* equal to the release's digest in the same run; a run whose digest differs
\* aborts with the installation directory and the marker as they were.
C1_VerifiedBeforeDestructive ==
  /\ (TreeChanged \/ pc \in {"remove", "mkdir", "extract_open", "extract", "marker"})
       => /\ archive.exists
          /\ archiveHash = release.SHA256Hash
          /\ calculateSHA256(archive.data) = ExpectedDigest
  /\ (archiveHash # 0 /\ archiveHash # release.SHA256Hash)
       => pc \in {"Aborted", "idle"} /\ ~TreeChanged
C1_Witness ==
  /\ pc = "extract" /\ idx > 1
  /\ InstallPath \in dirs0
  /\ <<"apps", "ws", "old">> \notin DOMAIN files

\* C2: with a server that answers range requests correctly, a download that
\* starts with the first K bytes of the resource in the partial file
\* (0 <= K <= ResLen), or with no partial file, returns with exactly the
\* resource at the destination and no partial file.
ServedCorrectly ==
  \A i \in DOMAIN reqs :
    LET c == CorrectResponse(reqs[i].range) IN
    reqs[i].status = c.status /\ ~reqs[i].corrupt
StartedWithPrefix ==
  ~partial0.exists \/ \E K \in 0..ResLen : partial0.data = SubSeq(Resource, 1, K)
DownloadReturned == pc = "verify" /\ reqs # <<>>
C2_ResumeEqualsFreshDownload ==
  (DownloadReturned /\ ServedCorrectly /\ StartedWithPrefix)
    => archive = File(Resource) /\ ~partial.exists
C2_Witness ==
  /\ DownloadReturned /\ ServedCorrectly
  /\ partial0.exists
  /\ Len(partial0.data) > 0 /\ Len(partial0.data) < ResLen
  /\ partial0.data = SubSeq(Resource, 1, Len(partial0.data))

\* C3: when the first request carried a Range header and the answer was not
\* 206, the partial file is deleted and a second request without a Range
\* header is sent; if that one is answered 200 with the resource, the
\* destination holds exactly the resource, none of the stale bytes.
RangeWasRefused ==
  reqs # <<>> /\ reqs[1].range > 0 /\ reqs[1].status # StatusPartialContent
C3_FallbackDiscardsPartial ==
  /\ pc = "dl_status"
       => RangeWasRefused /\ ~partial.exists /\ startOffset = 0
  /\ (RangeWasRefused /\ pc \in {"dl_status", "dl_copy", "verify"})
       => Len(reqs) = 2 /\ reqs[2].range = 0
  /\ (RangeWasRefused /\ pc = "verify" /\ reqs[Len(reqs)].status = StatusOK
        /\ ~reqs[Len(reqs)].corrupt)
       => archive = File(Resource) /\ ~partial.exists
C3_Witness ==
  /\ RangeWasRefused /\ pc = "verify"
  /\ archive = File(Resource)
  /\ partial0.exists /\ partial0.data # SubSeq(Resource, 1, Len(partial0.data))

\* C4: whatever the entries of the archive, every path extraction creates
\* or writes lies inside the destination root.  (Refuted: Windsurf/../bin
\* passes filepath.IsLocal and is joined only after the prefix is cut.)
C4_ExtractionStaysInsideRoot ==
  \A p \in dirs \cup DOMAIN files : p \in BaseDirs \/ Inside(InstallPath, p)

\* C5: no reachable state has a file at the final archive path whose digest
\* differs from the release's.  (Refuted: the rename of line 300 comes
\* before the check of line 152.)
C5_ArchiveAlwaysVerified ==
  archive.exists => calculateSHA256(archive.data) = ExpectedDigest

\* C6: an installation directory that exists at the replacement stage is
\* removed only with --yes or an answer beginning with y or Y; otherwise
\* nothing under it is removed.
BeginsWithY(r) == Len(r) >= 1 /\ r[1] \in {"y", "Y"}
C6_RemovalNeedsConsent ==
  /\ (pc = "remove" \/ (Exists(dirs0, files0, InstallPath) /\ TreeChanged))
       => yes \/ BeginsWithY(response)
  /\ (pc = "Aborted" /\ err = "ConfirmationDeclined")
       => ~yes /\ ~BeginsWithY(response) /\ ~TreeChanged
C6_Witness ==
  /\ ~yes /\ response = <<"Y", "e", "s">>
  /\ Exists(dirs0, files0, InstallPath)
  /\ ~Exists(dirs, files, InstallPath)

\* C7 as stated: after a refused confirmation the whole file system, the
\* download directory included, is as it was when the run started.
Refused == pc = "Aborted" /\ err = "ConfirmationDeclined"
C7_RefusalChangesNothing ==
  Refused => ~TreeChanged /\ ~DownloadDirChanged
\* C7 amended: after a refused confirmation the installation directory and
\* the marker are as they were when the run started; the download directory
\* holds the verified archive, is unchanged if the archive was there at the
\* start, and otherwise has gained the archive and lost its partial file.
C7_RefusalKeepsInstallation ==
  Refused =>
    /\ ~TreeChanged
    /\ archive.exists /\ calculateSHA256(archive.data) = ExpectedDigest
    /\ archive0.exists => ~DownloadDirChanged
    /\ ~archive0.exists => ~partial.exists /\ reqs # <<>>
C7_Witness ==
  /\ Refused /\ response = <<"n", "y">>
  /\ ~archive0.exists /\ partial0.exists

\* C8: in every state in which no run is under way, a marker that reads V
\* stands in an installation directory holding a complete extraction of
\* release V on which no later removal or extraction has started.
\* (Refuted: os.RemoveAll may stop, or be killed, with the marker left.)
FreshInstall == ExtractAll(BaseDirs \cup {InstallPath}, NoFiles, InstallPath, payload)
CompleteInstall(v) ==
  \/ /\ v \in InstalledVersions
     /\ dirs = BaseDirs \cup OldDirs
     /\ Drop(files, versionMarker) = OldFiles
  \/ /\ v = LatestVersion
     /\ ~FreshInstall.err
     /\ dirs = FreshInstall.dirs
     /\ Drop(files, versionMarker) = FreshInstall.files
C8_MarkerMeansCompleteInstall ==
  (pc \in Terminal \cup {"idle"} /\ versionMarker \in DOMAIN files)
    => CompleteInstall(files[versionMarker])

\* C9: a run ends Skipped, without a request and without a change to the
\* file system, exactly when --force-update is not set, the marker was read
\* and compareVersions(existing, latest) >= 0; otherwise it goes on to the
\* download stage.
PastVersionCheck ==
  \/ pc \in {"checkdl", "stat_archive", "verify"} \/ InDownload \/ AfterVerification
  \/ pc = "Aborted" /\ err \notin {"UnsupportedPlatform", "ResolutionError"}
UpToDate ==
  /\ ~force
  /\ vsn.read /\ ~vsn.err
  /\ compareVersions(TrimSpace(vsn.data), LatestVersion) >= 0
C9_SkippedExactlyWhenUpToDate ==
  /\ pc = "Skipped"
       => UpToDate /\ reqs = <<>> /\ ~TreeChanged /\ ~DownloadDirChanged
  /\ PastVersionCheck => ~UpToDate
  /\ (vsn.read /\ ~vsn.err) => vsn.data = files0[versionMarker]
C9_Witness ==
  pc = "Skipped" /\ vsn.data = <<1, Dot, 1, 0>>

\* C10: when a file is at the archive path as the run reaches the download
\* stage, the run sends no request, leaves the partial file alone and goes
\* straight to the digest check of that file.
C10_ExistingArchiveSkipsDownload ==
  (archive0.exists /\ pc # "idle")
    => reqs = <<>> /\ ~DownloadDirChanged /\ ~InDownload
C10_Witness ==
  archive0.exists /\ pc = "verify"


\* C11 as stated: a run that reaches Done leaves the marker reading the
\* resolved version, and a run that starts on that marker, not forced and
\* with the same version resolved, ends Skipped.
MarkerReadsLatest(f) ==
  versionMarker \in DOMAIN f /\ f[versionMarker] = LatestVersion
RunEnded == pc \in Terminal \ {"Killed"}
SkippedUntouched ==
  pc = "Skipped" /\ reqs = <<>> /\ ~TreeChanged /\ ~DownloadDirChanged
EntryStep == pc = "extract" /\ pc' # "marker"
PlainPart(c) == c # "" /\ c # ".."
PlainName(n) == \A i \in 1..Len(n) : PlainPart(n[i])
\* The entry lies under the wrapper directory: 'Windsurf/<rest>'.
UnderWrapper(e) ==
  /\ Len(e.name) >= 2 /\ e.name[1] = "Windsurf"
  /\ PlainName(Tail(e.name))
  /\ e.type \in {TypeDir, TypeReg}
MaterialisedAtRest ==
  (UnderWrapper(last') /\ pc' = "extract") =>
    LET target == InstallPath \o Tail(last'.name) IN
    IF last'.type = TypeDir THEN target \in dirs'
    ELSE target \in DOMAIN files'
BareWrapperLeavesNothing ==
  last'.name = <<"Windsurf">> => UNCHANGED <<dirs, files>>
\* C12: an entry 'Windsurf/<rest>' that extraction accepts is created at
\* R/<rest>, and the entry named 'Windsurf', the wrapper directory itself,
\* creates nothing under R.
C12_WrapperStripped ==
  [][EntryStep => (MaterialisedAtRest /\ BareWrapperLeavesNothing)]_vars


\* The run ended in io.Copy's error (line 297): a 200 or 206 answer was being
\* read, and the error is not that of the fallback's request (line 256).
StreamFailed ==
  /\ pc = "Aborted" /\ err = "TransferError"
  /\ resp.status \in {StatusOK, StatusPartialContent}
  /\ ~(RangeWasRefused /\ Len(reqs) = 1)
\* The body of the answer that was being read, and the part of it received.
BodySent ==
  LET q == reqs[Len(reqs)]
      b == IF q.corrupt THEN Corrupt ELSE Resource
  IN IF q.status = StatusPartialContent THEN Suffix(b, q.range) ELSE b
Received == SubSeq(BodySent, 1, Len(BodySent) - Len(resp.body))
\* The first request of a call asks for the bytes from the partial file's size.
ResumesFromSize ==
  (InDownload /\ reqs # <<>>)
    => reqs[1].range = IF partial0.exists THEN Len(partial0.data) ELSE 0
Obstructed(target) ==
  target \in dirs \/ \E q \in Prefixes(Parent(target)) : q \in DOMAIN files
\* C14: a regular-file entry of a plain local name is extracted whether or
\* not its parent directory is there: extraction fails on it only when
\* something stands in the way.  (A failed entry leaves dirs and files as
\* they were before it.)
C14_FileParentsCreated ==
  (pc = "Aborted" /\ last.type = TypeReg /\ IsLocal(last.name)
     /\ PlainName(TrimPrefix(last.name)))
    => Obstructed(Join(InstallPath, TrimPrefix(last.name)))


\* The archive's payload with its leading component stripped, placed under
\* the installation directory: the directories (with those above them, up
\* to the installation directory) and the regular files with their bytes.
Stripped(e) == Join(InstallPath, Tail(e.name))
PayloadDirs ==
  {q \in UNION {Prefixes(Stripped(payload[i])) :
                  i \in {j \in 1..Len(payload) : payload[j].type = TypeDir}} :
     Inside(InstallPath, q)}
PayloadFiles ==
  LET regs == {i \in 1..Len(payload) : payload[i].type = TypeReg} IN
  [p \in {Stripped(payload[i]) : i \in regs} |->
     payload[CHOOSE i \in regs : Stripped(payload[i]) = p].data]
InstalledDirs == {q \in dirs : Inside(InstallPath, q)}
InstalledFiles == Drop(files, versionMarker)
\* C15: after a run that reaches Done, whatever the installation directory
\* held before the run, it holds exactly the archive's payload with the
\* leading component stripped, apart from the marker; no file of the old
\* installation that the archive lacks is left.
C15_DoneHoldsExactlyPayload ==
  pc = "Done"
    => /\ InstalledDirs = PayloadDirs
       /\ InstalledFiles = PayloadFiles
       /\ \A p \in DOMAIN files0 :
            p \notin DOMAIN PayloadFiles /\ p # versionMarker => p \notin DOMAIN files
C15_Witness ==
  /\ pc = "Done"
  /\ <<"apps", "ws", "old">> \in DOMAIN files0
  /\ \E p \in DOMAIN files0 \cap DOMAIN PayloadFiles : files0[p] # PayloadFiles[p]


\* C16: once extraction has succeeded, the run ends Done without an error
\* whether or not the marker could be written; the step that writes the
\* marker leaves the extracted installation as it is.
C16_MarkerFailureOnlyWarns ==
  [][(pc = "marker" /\ pc' # "Killed")
       => /\ pc' = "Done" /\ err' = ""
          /\ dirs' = dirs
          /\ Drop(files', versionMarker) = Drop(files, versionMarker)]_vars
C16_Witness ==
  /\ pc = "Done" /\ err = ""
  /\ versionMarker \notin DOMAIN files
  /\ InstalledFiles = PayloadFiles /\ InstalledDirs = PayloadDirs


\* The numbers of a version string's components, padded with zeros to n.
Numbers(v, n) ==
  LET parts == Split(v) IN
  [i \in 1..n |-> IF i <= Len(parts) THEN Atoi(parts[i]) ELSE 0]
\* a comes before b in the lexicographic order of number sequences.
LexLess(a, b) ==
  \E k \in DOMAIN a : a[k] < b[k] /\ \A j \in 1..(k - 1) : a[j] = b[j]
LexSign(a, b) == IF LexLess(a, b) THEN -1 ELSE IF LexLess(b, a) THEN 1 ELSE 0
PaddedLen == Max(Len(Split(v1)), Len(Split(v2)))
\* C17: compareVersions returns the sign of the lexicographic comparison of
\* the versions' numeric components padded with zeros to equal length;
\* "1.2.3" < "1.2.10", "1.2" = "1.2.0", "2.0.0" > "1.9.9", and exchanging
\* the arguments negates the result.
C17_SignOfNumericComparison ==
  pc = "compared"
    => /\ cmp = LexSign(Numbers(v1, PaddedLen), Numbers(v2, PaddedLen))
       /\ cmp = 0 - compareVersions(v2, v1)
       /\ (v1 = <<1, Dot, 2, Dot, 3>> /\ v2 = <<1, Dot, 2, Dot, 1, 0>>) => cmp < 0
       /\ (v1 = <<1, Dot, 2>> /\ v2 = <<1, Dot, 2, Dot, 0>>) => cmp = 0
       /\ (v1 = <<2, Dot, 0, Dot, 0>> /\ v2 = <<1, Dot, 9, Dot, 9>>) => cmp > 0
C17_Witness ==
  /\ pc = "compared"
  /\ v1 = <<1, Dot, 2, Dot, 3>> /\ v2 = <<1, Dot, 2, Dot, 1, 0>>
  /\ cmp = -1


Success(status) == status \in {StatusOK, StatusPartialContent}
\* C18: a call of downloadFile sends at most two requests; the second is
\* sent only after the answer to a range request was not 206, and carries
\* no Range header; when its status is no success the call returns an
\* error (dl_status is the statement that has the answer in hand).
C18_AtMostTwoRequests ==
  /\ Len(reqs) <= 2
  /\ Len(reqs) = 2
       => /\ RangeWasRefused
          /\ reqs[2].range = 0
          /\ ~Success(reqs[2].status)
               => /\ pc \in {"dl_status", "Aborted", "Killed"}
                  /\ pc = "Aborted" => err = "TransferError"
                  /\ pc = "Aborted" => ~archive.exists
C18_Witness ==
  /\ Len(reqs) = 2
  /\ ~Success(reqs[2].status)
  /\ pc = "Aborted"


\* A file of another digest than the release's is at archivePath when the
\* run starts.
MismatchAtStart ==
  archive0.exists /\ calculateSHA256(archive0.data) # ExpectedDigest
\* C19: a run that starts with a file of another digest at archivePath sends
\* no request, gets no further than the digest check, which aborts it, and
\* leaves that file, the partial file and the installation tree as they
\* were; the next run therefore starts with the same file again.
C19_MismatchedArchiveStays ==
  MismatchAtStart
    => /\ reqs = <<>>
       /\ archive = archive0 /\ partial = partial0
       /\ ~TreeChanged
       /\ ~InDownload /\ ~AfterVerification
       /\ archiveHash # 0 => pc = "Aborted" /\ err = "IntegrityError"
C19_Witness ==
  /\ MismatchAtStart
  /\ pc = "Aborted" /\ err = "IntegrityError"
  /\ archive = archive0
  /\ InstallPath \in dirs


\* The run is for a platform of platformMap that is not extracted here.
ManualPlatform == platform # NoPlatform /\ ~IsLinux(platform)
\* C20: a run for a platform without the "linux-" prefix never removes or
\* changes an existing installation directory or its marker and never reads an
\* entry of the archive, and when it ends Manual the archive at archivePath
\* has the release's digest.
C20_ManualLeavesInstallation ==
  /\ (ManualPlatform /\ pc # "idle")
       => /\ InstallPath \in dirs0 => ~TreeChanged
          /\ pc \notin {"extract_open", "extract", "marker", "Done"}
          /\ last = NoEntry
  /\ pc = "Manual"
       => /\ ManualPlatform
          /\ archive.exists /\ calculateSHA256(archive.data) = ExpectedDigest


\* The step extracted a regular-file entry of a plain local name.
FileEntryExtracted ==
  /\ EntryStep /\ pc' = "extract"
  /\ last'.type = TypeReg
  /\ IsLocal(last'.name) /\ PlainName(TrimPrefix(last'.name))
\* C21: after a regular-file entry is extracted, the file at its target
\* holds exactly the entry's bytes, also when an earlier entry of the same
\* name had left a longer file there.
C21_FileHoldsExactlyEntryBytes ==
  [][FileEntryExtracted
       => LET target == Join(InstallPath, TrimPrefix(last'.name)) IN
          target \in DOMAIN files' /\ files'[target] = last'.data]_vars


\* The run before this one was terminated abruptly, and what it left in the
\* download directory are bytes of the release's archive.
AfterInterruptedRun ==
  /\ prev = "Killed"
  /\ archive0 \in {NoFile, File(Resource)}
  /\ StartedWithPrefix
\* Nothing outside the program failed in this run: the release resolved, the
\* download directory is there, the server answered every request as one
\* that honours ranges, the removal and the marker write met no error, the
\* prompt was answered with yes, and the archive is one that lists its
\* directories.
UndisturbedRun ==
  /\ payload = FullArchive
  /\ ServedCorrectly
  /\ err \notin {"ResolutionError", "NoDownloadDir", "TransferError",
                 "RemoveError", "ConfirmationDeclined"}
  /\ ~(pc = "Done" /\ versionMarker \notin DOMAIN files)
InstallCompleted ==
  /\ pc = "Done"
  /\ InstalledDirs = PayloadDirs /\ InstalledFiles = PayloadFiles
  /\ MarkerReadsLatest(files)
\* The interruption came before anything was removed: the run found a
\* complete installation that is up to date and left it alone.
SkippedOnCompleteInstall ==
  /\ pc = "Skipped"
  /\ versionMarker \in DOMAIN files
  /\ CompleteInstall(files[versionMarker])
\* C22: an undisturbed run that follows an abruptly terminated run and has
\* come to its end has ended Done, with the complete payload installed and
\* the marker reading the resolved version; it has not ended Aborted, and
\* not Skipped on an installation that is not complete.
C22_RunAfterInterruptionCompletes ==
  (AfterInterruptedRun /\ UndisturbedRun /\ pc \in {"Done", "Skipped", "Aborted"})
    => InstallCompleted \/ SkippedOnCompleteInstall

====
